---- MODULE Spec2Model ----
(***************************************************************************)
(* Model of the HTTP handler layer of api/main.py: a translation layer     *)
(* between HTTP requests, an embedding model (model.encode) and a vector   *)
(* store (the client).  The handlers are modelled from the source; the       *)
(* store and the embedding model are external collaborators and are        *)
(* modelled by their interface (collections with unique names, points      *)
(* keyed by id, scroll ordered by point id, ranked search).                *)
(***************************************************************************)
EXTENDS Integers, Sequences, FiniteSets, TLC

VARIABLES
    colls,     \* the store's collections: a set of [name, size, distance]
    points,    \* the points of collection "documents": id -> [vector, payload]
    issued,    \* the ids uuid.uuid4() has returned so far
    inst,      \* per application instance: where its startup_event is
    resp,      \* the response of the last request that completed
    live,      \* history: ids returned by a successful add, not deleted since
    gone,      \* history: ids deleted by a successful delete, not re-added
    req,       \* in-flight create_collection requests that run step by step
    wf,        \* a client running create/list/info/delete with no interleaving
    scan       \* a client paging through GET /documents with next_offset

vars == <<colls, points, issued, inst, resp, live, gone, req, wf, scan>>

----------------------------------------------------------------------------
(* Program constants *)

VECTOR_SIZE == 384
COLLECTION_NAME == "documents"
DEFAULT_LIST_LIMIT == 100
DEFAULT_SEARCH_LIMIT == 5
DEFAULT_VECTOR_SIZE == 384
DEFAULT_DISTANCE == "Cosine"

(* Bounds of the model *)

MaxNew == 2            \* ids uuid4 can hand out in one behaviour
MaxMainNew == 1        \* new ids beyond the first in the whole-layer specifications
MaxLimit == 2          \* explicit limit values range over 1..MaxLimit
OtherSize == 128       \* a vector_size other than the default one

\* Python's None where a cursor (a point id) is expected
None == [kind |-> "none", v |-> 0]

\* uuid4 ids, written as their rank in the store's id order.  BulkIds are the
\* ids of DEFAULT_LIST_LIMIT documents stored before the behaviour starts; one
\* new id sorts before them and the others after them.
BulkIds == 2..(DEFAULT_LIST_LIMIT + 1)
NewIds == {1} \cup {DEFAULT_LIST_LIMIT + k : k \in 2..MaxNew}
Ids == BulkIds \cup NewIds
MaxId == DEFAULT_LIST_LIMIT + MaxNew

Texts == {"a", "b"}
Names == {COLLECTION_NAME, "c1"}
Sizes == {DEFAULT_VECTOR_SIZE, OtherSize}
Instances == {1, 2}

EmptyMap == [k \in {} |-> "a"]
\* the metadata member of a POST /documents body
MetaInputs ==
    { [kind |-> "omitted", map |-> EmptyMap],
      [kind |-> "null", map |-> EmptyMap],
      [kind |-> "map", map |-> EmptyMap],
      [kind |-> "map", map |-> [k \in {"k"} |-> "a"]],
      [kind |-> "map", map |-> [k \in {"text"} |-> "b"]] }
\* text "a" with every metadata input, text "b" with metadata omitted or {"k": "a"}
DocBodies ==
    {b \in [text : Texts, metadata : MetaInputs] :
        b.text = "a" \/ b.metadata.kind = "omitted" \/ "k" \in DOMAIN b.metadata.map}

\* the distance member of a POST /collections body ("omitted": not given)
DistanceInputs == {"omitted", "Cosine", "Euclid", "Euclidean", "Dot", "Manhattan"}
CollectionBodies == [name : Names, vector_size : Sizes, distance : DistanceInputs]

\* which external call of the request raises for a reason of its own (an
\* outage); "none": the collaborators answer as their state dictates
NoFault == "none"
Faults == {"none", "encode", "get_collections", "create_collection", "upsert",
           "search", "scroll", "delete", "get_collection", "delete_collection"}

ErrUnavailable == "connection refused"
ErrNotFound == "Not found: Collection doesn't exist"
ErrConflict == "Wrong input: Collection already exists!"
ErrNoPoint == "Not found: No point with this id"
ErrTypeNone == "'NoneType' object is not a mapping"
ErrDimension == "Wrong input: Vector dimension error"

----------------------------------------------------------------------------
(* The external collaborators, by their interface.  Every call returns     *)
(* [ok, err, val] (and the store's new state where it writes).             *)

CollNames(cs) == {c.name : c \in cs}
HasColl(cs, n) == n \in CollNames(cs)
CollOf(cs, n) == CHOOSE c \in cs : c.name = n

\* model.encode(text).tolist(): a vector of the model's dimension; its
\* direction is the text's
model_encode(text, flt) ==
    IF flt = "encode"
    THEN [ok |-> FALSE, err |-> ErrUnavailable, val |-> [dim |-> 0, dir |-> ""]]
    ELSE [ok |-> TRUE, err |-> "", val |-> [dim |-> VECTOR_SIZE, dir |-> text]]

client_get_collections(flt) ==
    IF flt = "get_collections"
    THEN [ok |-> FALSE, err |-> ErrUnavailable, val |-> {}]
    ELSE [ok |-> TRUE, err |-> "", val |-> CollNames(colls)]

client_create_collection(cs, n, size, distance, flt) ==
    IF flt = "create_collection"
    THEN [ok |-> FALSE, err |-> ErrUnavailable, colls |-> cs]
    ELSE IF HasColl(cs, n)
    THEN [ok |-> FALSE, err |-> ErrConflict, colls |-> cs]
    ELSE [ok |-> TRUE, err |-> "",
          colls |-> cs \cup {[name |-> n, size |-> size, distance |-> distance]}]

\* deleting a collection that is not there: the store answers or raises
client_delete_collection(n, flt, absentRaises) ==
    IF flt = "delete_collection"
    THEN [ok |-> FALSE, err |-> ErrUnavailable, colls |-> colls, points |-> points]
    ELSE IF ~HasColl(colls, n)
    THEN IF absentRaises
         THEN [ok |-> FALSE, err |-> ErrNotFound, colls |-> colls, points |-> points]
         ELSE [ok |-> TRUE, err |-> "", colls |-> colls, points |-> points]
    ELSE [ok |-> TRUE, err |-> "",
          colls |-> {c \in colls : c.name # n},
          points |-> IF n = COLLECTION_NAME THEN EmptyMap ELSE points]

client_get_collection(n, flt) ==
    IF flt = "get_collection"
    THEN [ok |-> FALSE, err |-> ErrUnavailable, val |-> 0]
    ELSE IF ~HasColl(colls, n)
    THEN [ok |-> FALSE, err |-> ErrNotFound, val |-> 0]
    ELSE [ok |-> TRUE, err |-> "",
          val |-> IF n = COLLECTION_NAME THEN Cardinality(DOMAIN points) ELSE 0]

\* upsert of one point into collection n (only "documents" holds points here)
client_upsert(n, point, flt) ==
    IF flt = "upsert"
    THEN [ok |-> FALSE, err |-> ErrUnavailable, points |-> points]
    ELSE IF ~HasColl(colls, n)
    THEN [ok |-> FALSE, err |-> ErrNotFound, points |-> points]
    ELSE IF CollOf(colls, n).size # point.vector.dim
    THEN [ok |-> FALSE, err |-> ErrDimension, points |-> points]
    ELSE [ok |-> TRUE, err |-> "",
          points |-> [i \in DOMAIN points \cup {point.id} |->
                        IF i = point.id
                        THEN [vector |-> point.vector, payload |-> point.payload]
                        ELSE points[i]]]

\* deleting a point id that is not stored: the store answers or raises
client_delete(n, id, flt, absentRaises) ==
    IF flt = "delete"
    THEN [ok |-> FALSE, err |-> ErrUnavailable, points |-> points]
    ELSE IF ~HasColl(colls, n)
    THEN [ok |-> FALSE, err |-> ErrNotFound, points |-> points]
    ELSE IF id \notin DOMAIN points
    THEN IF absentRaises
         THEN [ok |-> FALSE, err |-> ErrNoPoint, points |-> points]
         ELSE [ok |-> TRUE, err |-> "", points |-> points]
    ELSE [ok |-> TRUE, err |-> "",
          points |-> [i \in DOMAIN points \ {id} |-> points[i]]]

IdSeq == [i \in 1..MaxId |-> i]
InSet(S) == [i \in 1..MaxId |-> i \in S]
\* the ids of S in the store's id order
SortedIds(S) == LET member == InSet(S) IN SelectSeq(IdSeq, LAMBDA i : member[i])

Take(s, n) == IF Len(s) <= n THEN s ELSE SubSeq(s, 1, n)

\* scroll: the points from `offset` on in id order, `limit` of them, and the id
\* of the one after them.  offset is a point id: [kind |-> "int", v |-> 0] is
\* the numeric id 0, and numeric ids sort before every uuid
client_scroll(n, limit, offset, flt) ==
    IF flt = "scroll"
    THEN [ok |-> FALSE, err |-> ErrUnavailable, val |-> <<>>, next |-> None]
    ELSE IF ~HasColl(colls, n)
    THEN [ok |-> FALSE, err |-> ErrNotFound, val |-> <<>>, next |-> None]
    ELSE IF limit < 1
    THEN [ok |-> FALSE, err |-> "Validation error: limit", val |-> <<>>, next |-> None]
    ELSE LET from == IF offset.kind = "int"
                     THEN DOMAIN points
                     ELSE {i \in DOMAIN points : i >= offset.v}
             ids == SortedIds(from)
         IN [ok |-> TRUE, err |-> "",
             val |-> [k \in 1..Len(Take(ids, limit)) |->
                        [id |-> ids[k], payload |-> points[ids[k]].payload]],
             next |-> IF Len(ids) > limit
                      THEN [kind |-> "uuid", v |-> ids[limit + 1]]
                      ELSE None]

\* similarity in hundredths under the collection's metric: the same
\* direction, or another one
Near == 100
Far == 40
Score(qv, pv) == IF qv.dir = pv.dir THEN Near ELSE Far

\* the first k ids of S by falling score, ties in id order
Ranked(S, qv, k) ==
    Take(SortedIds({i \in S : Score(qv, points[i].vector) = Near})
           \o SortedIds({i \in S : Score(qv, points[i].vector) = Far}), k)

client_search(n, qv, limit, flt) ==
    IF flt = "search"
    THEN [ok |-> FALSE, err |-> ErrUnavailable, val |-> <<>>]
    ELSE IF ~HasColl(colls, n)
    THEN [ok |-> FALSE, err |-> ErrNotFound, val |-> <<>>]
    ELSE IF limit < 1
    THEN [ok |-> FALSE, err |-> "Validation error: limit", val |-> <<>>]
    ELSE LET ids == Ranked(DOMAIN points, qv, limit)
         IN [ok |-> TRUE, err |-> "",
             val |-> [k \in 1..Len(ids) |->
                        [id |-> ids[k],
                         score |-> Score(qv, points[ids[k]].vector),
                         payload |-> points[ids[k]].payload]]]

----------------------------------------------------------------------------
(* Request validation (pydantic models and query parameters)               *)

\* class Document: metadata: Optional[dict] = {}
Document(body) ==
    [text |-> body.text,
     metadata |-> IF body.metadata.kind = "omitted"
                  THEN [isNone |-> FALSE, map |-> EmptyMap]
                  ELSE [isNone |-> body.metadata.kind = "null",
                        map |-> body.metadata.map]]

\* class CollectionCreate: distance: Optional[str] = "Cosine"
CollectionCreate(body) ==
    [name |-> body.name,
     vector_size |-> body.vector_size,
     distance |-> IF body.distance = "omitted" THEN DEFAULT_DISTANCE ELSE body.distance]

\* offset: int = 0: the query string must parse as an integer
OffsetIsInt(raw) == raw.kind = "int"

\* the fields of a request body that have no default
RequiredFields(op) ==
    IF op = "add_document" THEN {"text"}
    ELSE IF op = "search_documents" THEN {"query"}
    ELSE {"name"}

\* the body carries every required field of the handler's model
BodyIsValid(op, fields) == RequiredFields(op) \subseteq fields

\* the handlers that take a request body, and the fields a client may send
BodyOps == {"add_document", "search_documents", "create_collection"}
BodyShapes ==
    { {"invalid"}, {"metadata"}, {"limit"}, {"vector_size", "distance"},
      {"text", "metadata"}, {"query", "limit"}, {"name"} }

----------------------------------------------------------------------------
(* The handlers.  Each is the whole handler: it reads the store's state,   *)
(* and returns the response with the store's state after it.  A response   *)
(* records the external calls the handler made (calls) and what the store  *)
(* handed back to it (got).                                                *)

Reply(op, arg, status, detail, body, calls, got) ==
    [op |-> op, arg |-> arg, status |-> status, detail |-> detail,
     body |-> body, calls |-> calls, got |-> got]

Outcome(r, cs, ps, iss) == [resp |-> r, colls |-> cs, points |-> ps, issued |-> iss]

\* one external call: what was called, and the text of what it raised ("" when
\* it returned)
Call(fn, coll, limit, err) == [fn |-> fn, coll |-> coll, limit |-> limit, err |-> err]
EncodeCall(err) == Call("encode", "", 0, err)

NoBody == [status |-> "error"]

\* the exception's text is replaced by a fixed message
ServerError_generic(op, arg, e, calls) ==
    Outcome(Reply(op, arg, 500, "Internal Server Error", NoBody, calls, <<>>),
            colls, points, issued)

\* except Exception as e: raise HTTPException(status_code=500, detail=str(e))
ServerError(op, arg, e, calls) ==
    Outcome(Reply(op, arg, 500, e, NoBody, calls, <<>>), colls, points, issued)

\* {"text": doc.text, **doc.metadata}: a metadata key "text" replaces the text
Payload(text, map) ==
    [k \in {"text"} \cup DOMAIN map |-> IF k \in DOMAIN map THEN map[k] ELSE text]

\* hit.payload.get("text", "")
PayloadText(p) == IF "text" \in DOMAIN p THEN p["text"] ELSE ""
\* {k: v for k, v in payload.items() if k != "text"}
PayloadMetadata(p) == [k \in DOMAIN p \ {"text"} |-> p[k]]

\* the framework rejects the request before the handler runs
Unprocessable(op, arg) ==
    Outcome(Reply(op, arg, 422, "missing", NoBody, <<>>, <<>>), colls, points, issued)

\* the point is stored under a placeholder vector before the embedding is
\* computed
add_document_stored_first(body, id, flt) ==
    LET doc == Document(body)
        blank == [id |-> id, vector |-> [dim |-> VECTOR_SIZE, dir |-> ""],
                  payload |-> Payload(doc.text, EmptyMap)]
        up == client_upsert(COLLECTION_NAME, blank, flt)
        enc == model_encode(doc.text, flt)
        first == <<Call("upsert", COLLECTION_NAME, 0, up.err)>>
    IN IF ~up.ok
       THEN ServerError("add_document", body, up.err, first)
       ELSE IF ~enc.ok
       THEN Outcome(Reply("add_document", body, 500, enc.err, NoBody,
                          first \o <<EncodeCall(enc.err)>>, <<>>),
                    colls, up.points, issued \cup {id})
       ELSE Outcome(Reply("add_document", body, 200, "",
                          [id |-> id, text |-> doc.text, status |-> "added"],
                          first \o <<EncodeCall("")>>, <<>>),
                    colls,
                    [up.points EXCEPT ![id].vector = enc.val],
                    issued \cup {id})

add_document(body, id, flt) ==
    LET doc == Document(body)
        enc == model_encode(doc.text, flt)
        iss == issued \cup {id}
    IN IF ~enc.ok
       THEN ServerError("add_document", body, enc.err, <<EncodeCall(enc.err)>>)
       ELSE IF doc.metadata.isNone
       THEN Outcome(Reply("add_document", body, 500, ErrTypeNone, NoBody,
                          <<EncodeCall("")>>, <<>>),
                    colls, points, iss)
       ELSE LET point == [id |-> id, vector |-> enc.val,
                          payload |-> Payload(doc.text, doc.metadata.map)]
                up == client_upsert(COLLECTION_NAME, point, flt)
                calls == <<EncodeCall(""), Call("upsert", COLLECTION_NAME, 0, up.err)>>
            IN IF ~up.ok
               THEN Outcome(Reply("add_document", body, 500, up.err, NoBody, calls, <<>>),
                            colls, points, iss)
               ELSE Outcome(Reply("add_document", body, 200, "",
                                  [id |-> id, text |-> doc.text, status |-> "added"],
                                  calls, <<>>),
                            colls, up.points, iss)

\* the hits are returned last first
SearchResults_reversed(hits) ==
    [k \in 1..Len(hits) |->
        [id |-> hits[Len(hits) + 1 - k].id,
         score |-> hits[Len(hits) + 1 - k].score,
         text |-> PayloadText(hits[Len(hits) + 1 - k].payload),
         metadata |-> PayloadMetadata(hits[Len(hits) + 1 - k].payload)]]

SearchResults(hits) ==
    [k \in 1..Len(hits) |->
        [id |-> hits[k].id,
         score |-> hits[k].score,
         text |-> PayloadText(hits[k].payload),
         metadata |-> PayloadMetadata(hits[k].payload)]]

search_documents(query, flt) ==
    LET enc == model_encode(query.query, flt)
    IN IF ~enc.ok
       THEN ServerError("search_documents", query, enc.err, <<EncodeCall(enc.err)>>)
       ELSE LET res == client_search(COLLECTION_NAME, enc.val, query.limit, flt)
                calls == <<EncodeCall(""),
                           Call("search", COLLECTION_NAME, query.limit, res.err)>>
            IN IF ~res.ok
               THEN ServerError("search_documents", query, res.err, calls)
               ELSE Outcome(Reply("search_documents", query, 200, "",
                                  [query |-> query.query,
                                   results |-> SearchResults(res.val)],
                                  calls, res.val),
                            colls, points, issued)

ListedDocuments(pts) ==
    [k \in 1..Len(pts) |->
        [id |-> pts[k].id,
         text |-> PayloadText(pts[k].payload),
         metadata |-> PayloadMetadata(pts[k].payload)]]

\* GET /documents?limit=&offset=: offset is the raw query value, which the
\* framework parses as an int before the handler runs (422 otherwise)
get_all_documents(limit, offset, flt) ==
    LET arg == [limit |-> limit, offset |-> offset]
    IN IF ~OffsetIsInt(offset)
       THEN Outcome(Reply("get_all_documents", arg, 422, "int_parsing", NoBody,
                          <<>>, <<>>),
                    colls, points, issued)
       ELSE LET res == client_scroll(COLLECTION_NAME, limit, offset, flt)
                calls == <<Call("scroll", COLLECTION_NAME, limit, res.err)>>
            IN IF ~res.ok
               THEN ServerError("get_all_documents", arg, res.err, calls)
               ELSE Outcome(Reply("get_all_documents", arg, 200, "",
                                  [documents |-> ListedDocuments(res.val),
                                   total |-> Len(res.val),
                                   offset |-> offset.v,
                                   next_offset |-> res.next],
                                  calls, res.val),
                            colls, points, issued)

\* answers "deleted" without asking the store to delete
delete_document_kept(doc_id, flt, absentRaises) ==
    Outcome(Reply("delete_document", doc_id, 200, "",
                  [id |-> doc_id, status |-> "deleted"], <<>>, <<>>),
            colls, points, issued)

delete_document(doc_id, flt, absentRaises) ==
    LET res == client_delete(COLLECTION_NAME, doc_id, flt, absentRaises)
        calls == <<Call("delete", COLLECTION_NAME, 0, res.err)>>
    IN IF ~res.ok
       THEN ServerError("delete_document", doc_id, res.err, calls)
       ELSE Outcome(Reply("delete_document", doc_id, 200, "",
                          [id |-> doc_id, status |-> "deleted"], calls, <<>>),
                    colls, res.points, issued)

health(flt) ==
    LET res == client_get_collections(flt)
        calls == <<Call("get_collections", "", 0, res.err)>>
    IN IF ~res.ok
       THEN ServerError("health", "", res.err, calls)
       ELSE Outcome(Reply("health", "", 200, "",
                          [status |-> "healthy", qdrant |-> "connected",
                           collections |-> Cardinality(res.val)],
                          calls, res.val),
                    colls, points, issued)

get_collections(flt) ==
    LET res == client_get_collections(flt)
        calls == <<Call("get_collections", "", 0, res.err)>>
    IN IF ~res.ok
       THEN ServerError("get_collections", "", res.err, calls)
       ELSE Outcome(Reply("get_collections", "", 200, "",
                          [collections |-> res.val], calls, res.val),
                    colls, points, issued)

\* distance_map.get(collection.distance, Distance.COSINE)
distance_map_get(distance) ==
    CASE distance = "Cosine" -> "COSINE"
      [] distance = "Euclid" -> "EUCLID"
      [] distance = "Dot" -> "DOT"
      [] OTHER -> "COSINE"

\* the first half of create_collection: the existence check; `names` is what
\* client.get_collections() returned
\* the check is left out: every name passes
NameTaken_skipped(collection, names) == FALSE

NameTaken(collection, names) == collection.name \in names

AlreadyExists(body) ==
    Outcome(Reply("create_collection", body, 400,
                  <<"Collection '", body.name, "' already exists">>, NoBody,
                  <<Call("get_collections", "", 0, "")>>, <<>>),
            colls, points, issued)

\* what the creation call raises is dropped and "created" is answered
create_collection_create_swallowed(body, flt) ==
    LET collection == CollectionCreate(body)
        res == client_create_collection(colls, collection.name,
                                        collection.vector_size,
                                        distance_map_get(collection.distance), flt)
    IN Outcome(Reply("create_collection", body, 200, "",
                     [name |-> collection.name,
                      vector_size |-> collection.vector_size,
                      distance |-> collection.distance,
                      status |-> "created"],
                     <<Call("get_collections", "", 0, ""),
                       Call("create_collection", collection.name, 0, res.err)>>,
                     <<>>),
               res.colls, points, issued)

\* the second half of create_collection: the creation call and the response
create_collection_create(body, flt) ==
    LET collection == CollectionCreate(body)
        distance_metric == distance_map_get(collection.distance)
        res == client_create_collection(colls, collection.name,
                                        collection.vector_size, distance_metric, flt)
        calls == <<Call("get_collections", "", 0, ""),
                   Call("create_collection", collection.name, 0, res.err)>>
    IN IF ~res.ok
       THEN ServerError("create_collection", body, res.err, calls)
       ELSE Outcome(Reply("create_collection", body, 200, "",
                          [name |-> collection.name,
                           vector_size |-> collection.vector_size,
                           distance |-> collection.distance,
                           status |-> "created"],
                          calls, <<>>),
                    res.colls, points, issued)

create_collection(body, flt) ==
    LET collection == CollectionCreate(body)
        listing == client_get_collections(flt)
    IN IF ~listing.ok
       THEN ServerError("create_collection", body, listing.err,
                        <<Call("get_collections", "", 0, listing.err)>>)
       ELSE IF NameTaken(collection, listing.val)
       THEN AlreadyExists(body)
       ELSE create_collection_create(body, flt)

get_collection_info(collection_name, flt) ==
    LET res == client_get_collection(collection_name, flt)
        calls == <<Call("get_collection", collection_name, 0, res.err)>>
    IN IF ~res.ok
       THEN ServerError("get_collection_info", collection_name, res.err, calls)
       ELSE Outcome(Reply("get_collection_info", collection_name, 200, "",
                          [name |-> collection_name, vectors_count |-> res.val,
                           points_count |-> res.val, status |-> "green"],
                          calls, <<>>),
                    colls, points, issued)

\* answers "deleted" without asking the store to delete
delete_collection_kept(collection_name, flt, absentRaises) ==
    Outcome(Reply("delete_collection", collection_name, 200, "",
                  [name |-> collection_name, status |-> "deleted"], <<>>, <<>>),
            colls, points, issued)

delete_collection(collection_name, flt, absentRaises) ==
    LET res == client_delete_collection(collection_name, flt, absentRaises)
        calls == <<Call("delete_collection", collection_name, 0, res.err)>>
    IN IF ~res.ok
       THEN ServerError("delete_collection", collection_name, res.err, calls)
       ELSE Outcome(Reply("delete_collection", collection_name, 200, "",
                          [name |-> collection_name, status |-> "deleted"],
                          calls, <<>>),
                    res.colls, res.points, issued)

\* startup_event, first half: the existence check.  Nothing catches what the
\* store raises: the instance's startup fails with it
startup_check(flt) ==
    LET res == client_get_collections(flt)
    IN IF ~res.ok
       THEN [pc |-> "failed", absent |-> FALSE, called |-> FALSE, created |-> FALSE,
             err |-> res.err]
       ELSE [pc |-> "checked", absent |-> COLLECTION_NAME \notin res.val,
             called |-> FALSE, created |-> FALSE, err |-> ""]

StartupCreation(flt) ==
    LET res == client_create_collection(colls, COLLECTION_NAME, VECTOR_SIZE,
                                        "COSINE", flt)
    IN IF ~res.ok
       THEN [inst |-> [pc |-> "failed", absent |-> TRUE, called |-> TRUE,
                       created |-> FALSE, err |-> res.err],
             colls |-> colls]
       ELSE [inst |-> [pc |-> "up", absent |-> TRUE, called |-> TRUE,
                       created |-> TRUE, err |-> ""],
             colls |-> res.colls]

\* the creation call is made whatever the check found
startup_create_always(absent, flt) == StartupCreation(flt)

\* startup_event, second half: the creation call when the check found no
\* default collection
startup_create(absent, flt) ==
    IF ~absent
    THEN [inst |-> [pc |-> "up", absent |-> FALSE, called |-> FALSE,
                    created |-> FALSE, err |-> ""],
          colls |-> colls]
    ELSE StartupCreation(flt)

----------------------------------------------------------------------------
(* Initial states *)

DefaultColl == [name |-> COLLECTION_NAME, size |-> VECTOR_SIZE, distance |-> "COSINE"]
OtherColl == [name |-> "c1", size |-> VECTOR_SIZE, distance |-> "DOT"]
ForeignDefault == [name |-> COLLECTION_NAME, size |-> OtherSize, distance |-> "DOT"]

NewInst == [pc |-> "new", absent |-> FALSE, called |-> FALSE, created |-> FALSE,
            err |-> ""]
UpInst == [pc |-> "up", absent |-> FALSE, called |-> FALSE, created |-> FALSE,
           err |-> ""]
NoResp == Reply("none", "", 0, "", NoBody, <<>>, <<>>)
NoReq == [pc |-> "idle", body |-> NoBody, before |-> {}, resp |-> NoResp]
NoWf == [pc |-> "idle", name |-> "", before |-> {}, created |-> 0, listed |-> {},
         listedOk |-> FALSE, info |-> 0, deleted |-> 0, after |-> {}, afterOk |-> FALSE]
Int0 == [kind |-> "int", v |-> 0]
NoScan == [pc |-> "idle", limit |-> 0, cursor |-> Int0, seen |-> <<>>,
           status |-> 0, biggest |-> 0]

StoredDoc(text) ==
    [vector |-> [dim |-> VECTOR_SIZE, dir |-> text], payload |-> Payload(text, EmptyMap)]
\* DEFAULT_LIST_LIMIT documents added before the behaviour starts
BulkPoints == [i \in BulkIds |-> StoredDoc("a")]

InitRest ==
    /\ issued = {}
    /\ resp = NoResp
    /\ gone = {}
    /\ req = [r \in {1, 2} |-> NoReq]
    /\ wf = NoWf
    /\ scan = NoScan

\* one instance starts against a store that may or may not hold collections
Init ==
    /\ colls \in {{}, {DefaultColl}, {DefaultColl, OtherColl}}
    /\ points = EmptyMap
    /\ live = {}
    /\ inst = [i \in Instances |-> NewInst]
    /\ InitRest

----------------------------------------------------------------------------
(* Actions: one per handler.  F is the set of faults of the external calls *)
(* the environment may inject into the request.                            *)

\* the faults of F that can reach a handler making the calls `fns`
Among(F, fns) == F \cap ({NoFault} \cup fns)

Ready == \E i \in Instances : inst[i].pc = "up"
Quiet ==
    /\ wf.pc = "idle"
    /\ scan.pc = "idle"
    /\ \A r \in {1, 2} : req[r].pc = "idle"

Serve(o) ==
    /\ resp' = o.resp
    /\ colls' = o.colls
    /\ points' = o.points
    /\ issued' = o.issued

StartupCheck(i, F) ==
    /\ inst[i].pc = "new"
    /\ \E flt \in Among(F, {"get_collections"}) :
          inst' = [inst EXCEPT ![i] = startup_check(flt)]
    /\ UNCHANGED <<colls, points, issued, resp, live, gone, req, wf, scan>>

StartupCreate(i, F) ==
    /\ inst[i].pc = "checked"
    /\ \E flt \in Among(F, {"create_collection"}) :
          LET o == startup_create(inst[i].absent, flt)
          IN /\ inst' = [inst EXCEPT ![i] = o.inst]
             /\ colls' = o.colls
    /\ UNCHANGED <<points, issued, resp, live, gone, req, wf, scan>>

Health(F) ==
    /\ Ready /\ Quiet
    /\ \E flt \in Among(F, {"get_collections"}) : Serve(health(flt))
    /\ UNCHANGED <<inst, live, gone, req, wf, scan>>

AddDocument(F, P) ==
    /\ Ready /\ Quiet
    /\ \E body \in P.bodies, id \in P.ids \ issued, flt \in Among(F, {"encode", "upsert"}) :
          LET o == add_document(body, id, flt)
          IN /\ Serve(o)
             /\ live' = IF o.resp.status = 200 THEN live \cup {id} ELSE live
             /\ gone' = IF o.resp.status = 200 THEN gone \ {id} ELSE gone
    /\ UNCHANGED <<inst, req, wf, scan>>

SearchLimits == (1..MaxLimit) \cup {DEFAULT_SEARCH_LIMIT}
SearchDocuments(F, P) ==
    /\ Ready /\ Quiet
    /\ \E q \in Texts, limit \in P.searchLimits, flt \in Among(F, {"encode", "search"}) :
          Serve(search_documents([query |-> q, limit |-> limit], flt))
    /\ UNCHANGED <<inst, live, gone, req, wf, scan>>

ListLimits == (1..MaxLimit) \cup {DEFAULT_LIST_LIMIT}
GetAllDocuments(F, P) ==
    /\ Ready /\ Quiet
    /\ \E limit \in P.listLimits, flt \in Among(F, {"scroll"}) :
          Serve(get_all_documents(limit, Int0, flt))
    /\ UNCHANGED <<inst, live, gone, req, wf, scan>>

\* the ids a client asks to delete: the new ones and one of the stored bulk
DeleteDocument(F, P) ==
    /\ Ready /\ Quiet
    /\ \E id \in P.ids \cup {2}, flt \in Among(F, {"delete"}), absentRaises \in BOOLEAN :
          LET o == delete_document(id, flt, absentRaises)
          IN /\ Serve(o)
             /\ live' = IF o.resp.status = 200 THEN live \ {id} ELSE live
             /\ gone' = IF o.resp.status = 200 /\ id \in issued \cup BulkIds
                        THEN gone \cup {id} ELSE gone
    /\ UNCHANGED <<inst, req, wf, scan>>

GetCollections(F) ==
    /\ Ready /\ Quiet
    /\ \E flt \in Among(F, {"get_collections"}) : Serve(get_collections(flt))
    /\ UNCHANGED <<inst, live, gone, req, wf, scan>>

CreateCollection(F, CB) ==
    /\ Ready /\ Quiet
    /\ \E body \in CB, flt \in Among(F, {"get_collections", "create_collection"}) :
          Serve(create_collection(body, flt))
    /\ UNCHANGED <<inst, live, gone, req, wf, scan>>

GetCollectionInfo(F) ==
    /\ Ready /\ Quiet
    /\ \E n \in Names, flt \in Among(F, {"get_collection"}) :
          Serve(get_collection_info(n, flt))
    /\ UNCHANGED <<inst, live, gone, req, wf, scan>>

DeleteCollection(F) ==
    /\ Ready /\ Quiet
    /\ \E n \in Names, flt \in Among(F, {"delete_collection"}), absentRaises \in BOOLEAN :
          LET o == delete_collection(n, flt, absentRaises)
          IN /\ Serve(o)
             \* its documents go with the default collection
             /\ live' = IF o.resp.status = 200 /\ n = COLLECTION_NAME THEN {} ELSE live
    /\ UNCHANGED <<inst, gone, req, wf, scan>>

\* P: the inputs the document requests are drawn from
DocumentHandlers(F, P) ==
    \/ AddDocument(F, P)
    \/ SearchDocuments(F, P)
    \/ GetAllDocuments(F, P)
    \/ DeleteDocument(F, P)

\* every document body, every new id, explicit and default limits
AllDocInputs ==
    [bodies |-> DocBodies, ids |-> NewIds,
     searchLimits |-> SearchLimits, listLimits |-> ListLimits]

CollectionHandlers(F, CB) ==
    \/ Health(F)
    \/ GetCollections(F)
    \/ CreateCollection(F, CB)
    \/ GetCollectionInfo(F)
    \/ DeleteCollection(F)

\* the request bodies of the specification of the whole layer: two documents,
\* and every distance with the default vector_size or the default distance
\* with another vector_size
MainDocBodies ==
    { [text |-> "a", metadata |-> [kind |-> "omitted", map |-> EmptyMap]],
      [text |-> "b", metadata |-> [kind |-> "map", map |-> [k \in {"k"} |-> "a"]]] }
MainIds == {i \in NewIds : i <= DEFAULT_LIST_LIMIT + MaxMainNew}
MainDocInputs ==
    [bodies |-> MainDocBodies, ids |-> MainIds,
     searchLimits |-> {DEFAULT_SEARCH_LIMIT}, listLimits |-> {DEFAULT_LIST_LIMIT}]
MainCollectionBodies ==
    {b \in CollectionBodies :
        b.vector_size = DEFAULT_VECTOR_SIZE \/ b.distance = "omitted"}


(* A client that runs the collection workflow of the integration test with *)
(* no other request in between: list, create n, list, info n, delete n,    *)
(* list.  Every step is one whole handler.                                 *)

WfStart ==
    /\ Ready /\ Quiet
    /\ \E n \in Names \ CollNames(colls) :
          LET o == get_collections(NoFault)
          IN /\ Serve(o)
             /\ wf' = [NoWf EXCEPT !.pc = "listed", !.name = n,
                                   !.before = o.resp.body.collections]
    /\ UNCHANGED <<inst, live, gone, req, scan>>

WfCreate(CB) ==
    /\ wf.pc = "listed"
    /\ \E body \in {b \in CB : b.name = wf.name} :
          LET o == create_collection(body, NoFault)
          IN /\ Serve(o)
             /\ wf' = [wf EXCEPT !.pc = "created", !.created = o.resp.status]
    /\ UNCHANGED <<inst, live, gone, req, scan>>

WfRelist ==
    /\ wf.pc = "created"
    /\ LET o == get_collections(NoFault)
       IN /\ Serve(o)
          /\ wf' = [wf EXCEPT !.pc = "relisted",
                              !.listedOk = o.resp.status = 200,
                              !.listed = IF o.resp.status = 200
                                         THEN o.resp.body.collections ELSE {}]
    /\ UNCHANGED <<inst, live, gone, req, scan>>

WfInfo ==
    /\ wf.pc = "relisted"
    /\ LET o == get_collection_info(wf.name, NoFault)
       IN /\ Serve(o)
          /\ wf' = [wf EXCEPT !.pc = "informed", !.info = o.resp.status]
    /\ UNCHANGED <<inst, live, gone, req, scan>>

WfDelete ==
    /\ wf.pc = "informed"
    /\ \E absentRaises \in BOOLEAN :
          LET o == delete_collection(wf.name, NoFault, absentRaises)
          IN /\ Serve(o)
             /\ wf' = [wf EXCEPT !.pc = "deleted", !.deleted = o.resp.status]
             /\ live' = IF o.resp.status = 200 /\ wf.name = COLLECTION_NAME
                        THEN {} ELSE live
    /\ UNCHANGED <<inst, gone, req, scan>>

WfFinalList ==
    /\ wf.pc = "deleted"
    /\ LET o == get_collections(NoFault)
       IN /\ Serve(o)
          /\ wf' = [wf EXCEPT !.pc = "done",
                              !.afterOk = o.resp.status = 200,
                              !.after = IF o.resp.status = 200
                                        THEN o.resp.body.collections ELSE {}]
    /\ UNCHANGED <<inst, live, gone, req, scan>>

WfEnd ==
    /\ wf.pc = "done"
    /\ wf' = NoWf
    /\ UNCHANGED <<colls, points, issued, inst, resp, live, gone, req, scan>>

Workflow(CB) ==
    \/ WfStart
    \/ WfCreate(CB)
    \/ WfRelist
    \/ WfInfo
    \/ WfDelete
    \/ WfFinalList
    \/ WfEnd

(* A client that pages through GET /documents: it starts at offset 0 and   *)
(* passes each response's next_offset back as the next request's offset,   *)
(* until next_offset is none.  No other request runs during the scan.      *)

SeqIds(docs) == [k \in 1..Len(docs) |-> docs[k].id]
Max(a, b) == IF a >= b THEN a ELSE b

ScanPage(limit, offset) ==
    LET o == get_all_documents(limit, offset, NoFault)
        ok == o.resp.status = 200
    IN /\ Serve(o)
       /\ scan' = [pc |-> IF ~ok THEN "failed"
                          ELSE IF o.resp.body.next_offset = None THEN "done"
                          ELSE "paging",
                   limit |-> limit,
                   cursor |-> IF ok THEN o.resp.body.next_offset ELSE offset,
                   seen |-> IF ok THEN scan.seen \o SeqIds(o.resp.body.documents)
                            ELSE scan.seen,
                   status |-> o.resp.status,
                   biggest |-> IF ok THEN Max(scan.biggest, o.resp.body.total)
                               ELSE scan.biggest]

ScanStart ==
    /\ Ready /\ Quiet
    /\ \E limit \in ListLimits : ScanPage(limit, Int0)
    /\ UNCHANGED <<inst, live, gone, req, wf>>

ScanNext ==
    /\ scan.pc = "paging"
    /\ ScanPage(scan.limit, scan.cursor)
    /\ UNCHANGED <<inst, live, gone, req, wf>>

ScanEnd ==
    /\ scan.pc \in {"done", "failed"}
    /\ scan' = NoScan
    /\ UNCHANGED <<colls, points, issued, inst, resp, live, gone, req, wf>>

Scan ==
    \/ ScanStart
    \/ ScanNext
    \/ ScanEnd

Next ==
    \/ StartupCheck(1, {NoFault})
    \/ StartupCreate(1, {NoFault})
    \/ DocumentHandlers({NoFault}, MainDocInputs)
    \/ CollectionHandlers({NoFault}, MainCollectionBodies)
    \/ Workflow(MainCollectionBodies)

Spec == Init /\ [][Next]_vars

(* The document handlers alone, against a store that holds the default     *)
(* collection, empty or with DEFAULT_LIST_LIMIT documents.                 *)

InitDocs ==
    /\ colls = {DefaultColl}
    /\ points \in {EmptyMap, BulkPoints}
    /\ live = DOMAIN points
    /\ inst = [i \in Instances |-> NewInst]
    /\ InitRest

NextDocs ==
    \/ StartupCheck(1, {NoFault})
    \/ StartupCreate(1, {NoFault})
    \/ DocumentHandlers({NoFault}, AllDocInputs)
    \/ Scan

SpecDocs == InitDocs /\ [][NextDocs]_vars

(* Two create_collection requests that run concurrently: the existence     *)
(* check and the creation call of each are separate steps of the store.    *)

RaceCheck(r, CB) ==
    /\ Ready
    /\ req[r].pc = "idle"
    /\ \E body \in CB :
          LET listing == client_get_collections(NoFault)
          IN req' = [req EXCEPT ![r] =
                       IF NameTaken(CollectionCreate(body), listing.val)
                       THEN [pc |-> "done", body |-> body, before |-> listing.val,
                             resp |-> AlreadyExists(body).resp]
                       ELSE [pc |-> "checked", body |-> body, before |-> listing.val,
                             resp |-> NoResp]]
    /\ UNCHANGED <<colls, points, issued, inst, resp, live, gone, wf, scan>>

RaceCreate(r) ==
    /\ req[r].pc = "checked"
    /\ LET o == create_collection_create(req[r].body, NoFault)
       IN /\ colls' = o.colls
          /\ req' = [req EXCEPT ![r].pc = "done", ![r].resp = o.resp]
    /\ UNCHANGED <<points, issued, inst, resp, live, gone, wf, scan>>

InitRace ==
    /\ colls \in {{DefaultColl}, {DefaultColl, OtherColl}}
    /\ points = EmptyMap
    /\ live = {}
    /\ inst = [i \in Instances |-> IF i = 1 THEN UpInst ELSE NewInst]
    /\ InitRest

NextRace ==
    \E r \in {1, 2} :
        \/ RaceCheck(r, MainCollectionBodies)
        \/ RaceCreate(r)

SpecRace == InitRace /\ [][NextRace]_vars

(* Two instances that start concurrently against the same store; an        *)
(* instance that is up serves document requests.                           *)

SeedPoints == [i \in {2} |-> StoredDoc("a")]

InitStartup ==
    /\ \/ /\ colls \in {{}, {OtherColl}}
          /\ points = EmptyMap
       \/ /\ colls \in {{DefaultColl}, {ForeignDefault}, {DefaultColl, OtherColl}}
          /\ points \in {EmptyMap, SeedPoints}
    /\ live = DOMAIN points
    /\ inst = [i \in Instances |-> NewInst]
    /\ InitRest

NextStartup ==
    \/ \E i \in Instances :
          \/ StartupCheck(i, {NoFault})
          \/ StartupCreate(i, {NoFault})
    \/ DocumentHandlers({NoFault}, MainDocInputs)

SpecStartup == InitStartup /\ [][NextStartup]_vars

(* The whole layer when any external call of a request may raise.          *)

NextFault ==
    \/ StartupCheck(1, {NoFault})
    \/ StartupCreate(1, {NoFault})
    \/ DocumentHandlers(Faults, MainDocInputs)
    \/ CollectionHandlers(Faults, MainCollectionBodies)

SpecFault == Init /\ [][NextFault]_vars

(* The whole layer when any external call may raise and a client may send  *)
(* a body or an offset that the framework rejects.                         *)

\* a request whose body lacks a required field of the handler's model
RejectedBody ==
    /\ Ready /\ Quiet
    /\ \E op \in BodyOps, fields \in BodyShapes :
          /\ ~BodyIsValid(op, fields)
          /\ Serve(Unprocessable(op, fields))
    /\ UNCHANGED <<inst, live, gone, req, wf, scan>>

\* GET /documents with a point id, as next_offset hands it out, as offset
RejectedOffset(F) ==
    /\ Ready /\ Quiet
    /\ \E id \in MainIds, flt \in Among(F, {"scroll"}) :
          Serve(get_all_documents(DEFAULT_LIST_LIMIT, [kind |-> "uuid", v |-> id], flt))
    /\ UNCHANGED <<inst, live, gone, req, wf, scan>>

NextErrors ==
    \/ StartupCheck(1, {NoFault})
    \/ StartupCreate(1, {NoFault})
    \/ DocumentHandlers(Faults, MainDocInputs)
    \/ CollectionHandlers(Faults, MainCollectionBodies)
    \/ RejectedBody
    \/ RejectedOffset(Faults)

SpecErrors == Init /\ [][NextErrors]_vars

----------------------------------------------------------------------------
(* Properties *)

CallsTo(r, fn) == {k \in 1..Len(r.calls) : r.calls[k].fn = fn}
CollsNamed(n) == {c \in colls : c.name = n}

\* a step that serves a create_collection request
CreateStep == resp' # resp /\ resp'.op = "create_collection"

\* C1: a create_collection request for a name the store already holds, with no
\* other request interleaved, answers 400 with a detail saying that the
\* collection already exists, makes no create_collection call on the store and
\* leaves the store's collections and points as they were.
C1_DuplicateStep ==
    (CreateStep /\ HasColl(colls, resp'.arg.name)) =>
        /\ resp'.status = 400
        /\ resp'.detail = <<"Collection '", resp'.arg.name, "' already exists">>
        /\ CallsTo(resp', "create_collection") = {}
        /\ colls' = colls
        /\ points' = points
C1_DuplicateCreateIsClientError == [][C1_DuplicateStep]_vars

C1_Witness ==
    /\ resp.op = "create_collection"
    /\ resp.status = 400
    /\ HasColl(colls, resp.arg.name)
    /\ CallsTo(resp, "get_collections") # {}

\* C6: in the workflow list, create n, list, info n, delete n, list, run with
\* no other request in between for a name n that is not in the store: once the
\* create answered 200 the second listing holds n and exactly one name more
\* than the first, and the info request answers 200; once the delete answered
\* 200 too, the last listing does not hold n and is the first listing again.
C6_CreateListInfoDelete ==
    /\ (wf.pc \in {"relisted", "informed", "deleted", "done"} /\ wf.created = 200) =>
          /\ wf.listedOk
          /\ wf.name \in wf.listed
          /\ Cardinality(wf.listed) = Cardinality(wf.before) + 1
    /\ (wf.pc \in {"informed", "deleted", "done"} /\ wf.created = 200) =>
          wf.info = 200
    /\ (wf.pc = "done" /\ wf.created = 200 /\ wf.deleted = 200) =>
          /\ wf.afterOk
          /\ wf.name \notin wf.after
          /\ wf.after = wf.before

C6_Witness ==
    /\ wf.pc = "done"
    /\ wf.created = 200
    /\ wf.deleted = 200
    /\ wf.info = 200
    /\ wf.before # {}

\* the metric the data model's name stands for; a missing or unknown name
\* stands for Cosine
MetricNamed(d) ==
    CASE d = "Cosine" -> "COSINE"
      [] d = "Euclidean" -> "EUCLID"
      [] d = "Dot" -> "DOT"
      [] OTHER -> "COSINE"
\* the names a response may report a metric by
NamesOfMetric(m) ==
    CASE m = "COSINE" -> {"Cosine"}
      [] m = "EUCLID" -> {"Euclidean", "Euclid"}
      [] m = "DOT" -> {"Dot"}

\* C7: a create_collection request that answers 200 has created the collection
\* with the metric its distance names (Cosine, Euclidean or Dot; Cosine when the
\* distance is missing or not one of the three), and the distance in the
\* response is the metric the collection was created with.
C7_MetricFollowsRequest ==
    (resp.op = "create_collection" /\ resp.status = 200) =>
        \E c \in CollsNamed(resp.arg.name) :
            /\ c.distance = MetricNamed(resp.arg.distance)
            /\ resp.body.distance \in NamesOfMetric(c.distance)

ListedIds(r) == {r.body.documents[k].id : k \in 1..Len(r.body.documents)}
Listing(r) == r.op = "get_all_documents" /\ r.status = 200
DefaultListing(r) ==
    /\ Listing(r)
    /\ r.arg = [limit |-> DEFAULT_LIST_LIMIT, offset |-> Int0]

SeqRange(q) == {q[k] : k \in 1..Len(q)}

\* C3: in a scan of GET /documents with limit N >= 1 that starts at offset 0
\* and passes next_offset back while no document changes, every call answers
\* 200 with at most N documents, and when next_offset is none the pages hold
\* every stored document exactly once.
C3_ScanEnumeratesEveryDocumentOnce ==
    scan.pc # "idle" =>
        /\ scan.status = 200
        /\ scan.biggest <= scan.limit
        /\ scan.pc = "done" =>
              /\ SeqRange(scan.seen) = DOMAIN points
              /\ Len(scan.seen) = Cardinality(DOMAIN points)

\* the hits the store ranks for the request of response r, in the present state
StoreHits(r) ==
    client_search(COLLECTION_NAME, model_encode(r.arg.query, NoFault).val,
                  r.arg.limit, NoFault).val

\* C9: a search request makes exactly one store search call, on the default
\* collection with the request's limit, and its results are the store's ranked
\* hits one by one: as many (so at most limit), in the same order, each with
\* the hit's id, score, the text of its payload, and as metadata every payload
\* key but text.
C9_SearchKeepsStoreRanking ==
    (resp.op = "search_documents" /\ resp.status = 200) =>
        LET hits == StoreHits(resp)
            res == resp.body.results
        IN /\ Cardinality(CallsTo(resp, "search")) = 1
           /\ \A k \in CallsTo(resp, "search") :
                 resp.calls[k] = Call("search", COLLECTION_NAME, resp.arg.limit, "")
           /\ resp.got = hits
           /\ Len(res) = Len(hits)
           /\ Len(res) <= resp.arg.limit
           /\ \A k \in 1..Len(res) :
                 /\ res[k].id = hits[k].id
                 /\ res[k].score = hits[k].score
                 /\ res[k].text = hits[k].payload["text"]
                 /\ DOMAIN res[k].metadata = DOMAIN hits[k].payload \ {"text"}
                 /\ \A key \in DOMAIN res[k].metadata :
                       res[k].metadata[key] = hits[k].payload[key]
                 /\ k > 1 => res[k - 1].score >= res[k].score

C9_Witness ==
    /\ resp.op = "search_documents"
    /\ resp.status = 200
    /\ Len(resp.body.results) = 2
    /\ resp.arg.limit = 2
    /\ Cardinality(DOMAIN points) > 2
    /\ resp.body.results[1].score > resp.body.results[2].score
    /\ resp.body.results[1].id > resp.body.results[2].id
    /\ \E k \in 1..2 : DOMAIN resp.body.results[k].metadata # {}

\* a step that serves an add_document request
AddStep == resp' # resp /\ resp'.op = "add_document"

\* the entries of a 200 listing or search response
Entries(r) ==
    IF r.op = "get_all_documents" THEN SeqRange(r.body.documents)
    ELSE SeqRange(r.body.results)

C10_AddAnswers ==
    AddStep =>
        /\ resp'.status = 200
        /\ resp'.body.id \notin DOMAIN points
        /\ DOMAIN points' = DOMAIN points \cup {resp'.body.id}
        /\ \A i \in DOMAIN points : points'[i] = points[i]

C10_ReadBack ==
    ( /\ resp.op = "add_document" /\ resp.status = 200
      /\ resp' # resp
      /\ resp'.op \in {"get_all_documents", "search_documents"}
      /\ resp'.status = 200 ) =>
        \A e \in Entries(resp') :
            e.id = resp.body.id =>
                /\ e.text = resp.arg.text
                /\ e.text = resp.body.text
                /\ e.metadata = resp.arg.metadata.map

\* C10: every add_document request (any text; metadata any mapping, omitted or
\* null) answers 200 with an id that was not stored, adds exactly that point
\* and changes no other; a listing or search that follows it and returns the
\* id reports the text of the request (which the add response returned too)
\* and the metadata of the request (empty when omitted or null).
C10_AddStoresTextAndMetadata == [][C10_AddAnswers /\ C10_ReadBack]_vars

BothDone == \A r \in {1, 2} : req[r].pc = "done"
\* the two requests name the same collection, and the store did not hold it
\* when the first of them checked
SameAbsentName ==
    /\ req[1].body.name = req[2].body.name
    /\ \E r \in {1, 2} : req[r].body.name \notin req[r].before
Created(r) == req[r].resp.status = 200 /\ req[r].resp.body.status = "created"

\* C4: when two create_collection requests for the same name, absent from the
\* store, have both been answered, whatever the order of their existence
\* checks and creation calls, the store holds exactly one collection of that
\* name and at most one request answered 200 "created"; the other answered 400
\* if its check came after the creation, and 500 with the store's
\* duplicate-creation error if its check came before.
C4_RaceCreatesOnce ==
    (BothDone /\ SameAbsentName) =>
        /\ Cardinality(CollsNamed(req[1].body.name)) = 1
        /\ Cardinality({r \in {1, 2} : Created(r)}) <= 1
        /\ \A r \in {1, 2} :
              \/ Created(r)
              \/ /\ req[r].resp.status = 400
                 /\ req[r].body.name \in req[r].before
              \/ /\ req[r].resp.status = 500
                 /\ req[r].resp.detail = ErrConflict
                 /\ req[r].body.name \notin req[r].before

\* both checks came before either creation: the losing request answers 500
C4_Witness ==
    /\ BothDone
    /\ SameAbsentName
    /\ \A r \in {1, 2} : req[r].body.name \notin req[r].before
    /\ \E r \in {1, 2} : Created(r)
    /\ \E r \in {1, 2} : req[r].resp.status = 500 /\ req[r].resp.detail = ErrConflict

StartupOver(i) == inst[i].pc \in {"up", "failed"}
DefaultCount == Cardinality(CollsNamed(COLLECTION_NAME))

C8_After ==
    /\ \A i \in Instances : inst[i].pc = "up" => DefaultCount = 1
    /\ \A i \in Instances :
          StartupOver(i) => (inst[i].called <=> inst[i].absent)
    /\ (\A i \in Instances : StartupOver(i)) =>
          /\ DefaultCount = 1
          /\ (\A i \in Instances : inst[i].absent) =>
                \E i \in Instances :
                    /\ inst[i].pc = "up" /\ inst[i].created
                    /\ \A j \in Instances \ {i} :
                          /\ inst[j].pc = "failed"
                          /\ inst[j].err = ErrConflict

C8_Step ==
    \A i \in Instances :
        /\ (inst[i].pc = "new" /\ inst'[i].pc # "new") =>
              /\ inst'[i].absent <=> ~HasColl(colls, COLLECTION_NAME)
              /\ colls' = colls /\ points' = points
        /\ (inst[i].pc = "checked" /\ inst'[i].pc # "checked") =>
              /\ points' = points
              /\ ~inst[i].absent =>
                    /\ inst'[i].pc = "up"
                    /\ ~inst'[i].called
                    /\ colls' = colls
              /\ (inst[i].absent /\ inst'[i].pc = "up") =>
                    colls' = colls \cup {DefaultColl}
              /\ inst'[i].pc = "failed" => colls' = colls

\* C8: startup makes its creation call exactly when its existence check did
\* not list the default collection, and the call creates ("documents", 384,
\* Cosine); once a startup has completed the store holds exactly one default
\* collection; a startup whose check listed it makes no creation call and
\* leaves the collections and the points as they are; and when two instances
\* start together against a store without it, the store ends with exactly one
\* default collection, and if both checks came before either creation the
\* instance that creates second fails its startup with the store's error.
C8_StartupCreatesDefaultOnce == [][C8_After' /\ C8_Step]_vars

C8_Witness ==
    /\ \A i \in Instances : StartupOver(i) /\ inst[i].absent
    /\ \E i \in Instances : inst[i].pc = "up" /\ inst[i].created
    /\ \E i \in Instances : inst[i].pc = "failed" /\ inst[i].err = ErrConflict
    /\ DefaultCount = 1

Raised(r) == {k \in 1..Len(r.calls) : r.calls[k].err # ""}

\* C5: every request is answered 200, 400 or 500.  When an embedding or store
\* call of the handler raised, the answer is 500 and its detail is the text of
\* what was raised; 400 is answered only by create_collection for a name the
\* existence check listed, with its own detail; delete_document answers 200
\* or 500 (also for an id that is not stored), and get_collection_info of a
\* name that is not in the store answers 500.
C5_EveryFailureIsServerError ==
    resp.op # "none" =>
        /\ resp.status \in {200, 400, 500}
        /\ \A k \in Raised(resp) :
              /\ resp.status = 500
              /\ resp.detail = resp.calls[k].err
              /\ k = Len(resp.calls)
        /\ resp.status = 400 =>
              /\ resp.op = "create_collection"
              /\ resp.detail = <<"Collection '", resp.arg.name, "' already exists">>
              /\ HasColl(colls, resp.arg.name)
        /\ resp.op = "delete_document" => resp.status \in {200, 500}
        /\ (resp.op = "get_collection_info" /\ ~HasColl(colls, resp.arg)) =>
              resp.status = 500

C5_Witness ==
    /\ resp.op = "add_document"
    /\ resp.status = 500
    /\ Raised(resp) = {2}
    /\ resp.detail = ErrUnavailable


\* the store calls that write
Mutating == {"upsert", "delete", "create_collection", "delete_collection"}
MutatingCalls(r) == {k \in 1..Len(r.calls) : r.calls[k].fn \in Mutating}
EncodeRaised(r) == \E k \in CallsTo(r, "encode") : r.calls[k].err # ""

\* C11: a handler makes at most one mutating store call, and it is the last
\* call it makes; a request answered 400, 422 or 500 leaves the store's
\* collections and points as they were before it; add_document whose
\* embedding computation raised made no upsert, and a request answered 422
\* reached no embedding or store call.  (A step that leaves inst alone is a
\* request; the startup steps change it.)
C11_Step ==
    inst' = inst =>
        /\ Cardinality(MutatingCalls(resp')) <= 1
        /\ \A k \in MutatingCalls(resp') : k = Len(resp'.calls)
        /\ resp'.status \in {400, 422, 500} =>
              /\ colls' = colls
              /\ points' = points
        /\ (resp'.op = "add_document" /\ EncodeRaised(resp')) =>
              CallsTo(resp', "upsert") = {}
        /\ resp'.status = 422 => resp'.calls = <<>>

C11_ErrorLeavesStoreUnchanged == [][C11_Step]_vars

\* add_document answered 500 for an embedding that raised, against a store
\* that holds the default collection
C11_Witness ==
    /\ resp.op = "add_document"
    /\ resp.status = 500
    /\ resp.calls = <<EncodeCall(ErrUnavailable)>>
    /\ HasColl(colls, COLLECTION_NAME)
    /\ points = EmptyMap


DocumentOps == {"add_document", "search_documents", "get_all_documents",
                "delete_document"}
DefaultUsable(cs) ==
    \E c \in cs : c.name = COLLECTION_NAME /\ c.size = VECTOR_SIZE

\* C12: once startup has completed, after every step the store holds the
\* default collection "documents" with vector size 384, whatever requests
\* were served (create_collection and delete_collection of any name
\* included); no document handler answers with the store's "collection not
\* found" or with its vector dimension error; and a document handler's step
\* leaves the set of collections as it was.
C12_Step ==
    inst'[1].pc = "up" =>
        /\ DefaultUsable(colls')
        /\ (inst' = inst /\ resp'.op \in DocumentOps) =>
              /\ resp'.detail \notin {ErrNotFound, ErrDimension}
              /\ colls' = colls

C12_DefaultCollectionAlwaysUsable == [][C12_Step]_vars

====
